---- MODULE Spec2Model ----
(***************************************************************************)
(* A model of src/CSEEW/eew.js: the earthquake early-warning client.       *)
(* The state is the two registries (activeEewAlerts, activeWaveAnimations),*)
(* the pending callbacks of the run loop (expiry timers, animation frames, *)
(* view-fit timers, transitionend listeners), the banner container, the    *)
(* overlays on the map and the map view.  Every action is one callback of  *)
(* the run loop, executed to completion.                                   *)
(*                                                                         *)
(* Units: time in ms, radii in m, magnitude in tenths, coordinates in      *)
(* hundredths of a degree, depth in km.                                    *)
(*                                                                         *)
(* Time is kept as clocks relative to the present: an expiry timer holds   *)
(* the time left until it is due (its due time minus Date.now()), a        *)
(* simulation holds the time since its last frame (performance.now() minus *)
(* lastUpdateTime).  Tick lets time pass.                                  *)
(***************************************************************************)
EXTENDS Integers, Sequences, FiniteSets, TLC

VARIABLES
    activeEewAlerts,      \* Map in insertion order: Seq of [eventId, element, timeoutId]
    activeWaveAnimations, \* Map: eventId -> [sim, animationFrameId, fitViewTimer]
    expiryTimers,         \* pending setTimeout(..., ALERT_DISPLAY_DURATION_MS) callbacks
    fitViewTimers,        \* pending setTimeout(..., 500) callbacks of animateWaves
    frames,               \* pending requestAnimationFrame(animateWaves) callbacks
    sims,                 \* the closures of addEarthquake: sim -> its local variables,
                          \* and the time since the closure was made (sinceStart)
    container,            \* eewAlertsContainer: element -> [eventId, content, hidden, listener]
    mapObjects,           \* sims whose epicenter, pWave and sWave are on the map
    view,                 \* the map view: [center, zoom, fitted]
    nextTestId,           \* how many `test-...` identifiers were synthesized
    initialPending,       \* initial-load fetches not yet resolved
    pool,                 \* the snapshots the feeds answer with in this behaviour
    testEewBtn,           \* whether the page has the test button
    cycles,               \* the polling cycles awaiting their fetches: eewDataPromises of each
    estimateCall,         \* a call of estimateIntensity on its own: arguments and result
    lastOp                \* the callback that ran last, and what it did

vars == <<activeEewAlerts, activeWaveAnimations, expiryTimers, fitViewTimers,
          frames, sims, container, mapObjects, view, nextTestId, initialPending, pool,
          testEewBtn, cycles, estimateCall, lastOp>>

---------------------------------------------------------------------------
(* Program constants *)

INITIAL_MAP_CENTER == <<10406, 3067>>
INITIAL_MAP_ZOOM == 5
ALERT_DISPLAY_DURATION_MS == 600000
EpicenterZoom == 8
pWaveSpeed_m_s == 6000
sWaveSpeed_m_s == 4000
NumEewSources == 4

(* Bounds of the model *)

MaxTestIds == 2          \* synthesized `test-...` identifiers
MaxElements == 2         \* banner elements in the container at once
MaxSims == 2             \* closures of addEarthquake with a callback still to run
TicksPerDuration == 1    \* clock steps per ALERT_DISPLAY_DURATION_MS
MaxOverlappingCycles == 2 \* the same, where slow fetches let cycles overlap
MaxCyclesInFlight == 1   \* polling cycles that await their fetches at one time
MaxMagnitude == 100      \* the largest magnitude estimateIntensity is called with, in tenths
MaxInitialLoads == 1     \* initial-load fetches that resolve within a behaviour

WaveTicksPerDuration == 4 \* clock steps per ALERT_DISPLAY_DURATION_MS when watching a simulation

TickMs == ((ALERT_DISPLAY_DURATION_MS \div TicksPerDuration) \div 1000) * 1000
WaveTickMs == ((ALERT_DISPLAY_DURATION_MS \div WaveTicksPerDuration) \div 1000) * 1000

---------------------------------------------------------------------------
(* JavaScript values *)

NaN == 0 - 999999          \* the number NaN
Undefined == 0 - 999998    \* a missing field
NonNumeric == 0 - 999997   \* a string that does not start with a number
NotApplicable == 0 - 999996 \* the string 'N/A'
Dash == 0 - 999995         \* the string '-'
UnknownText == 0 - 999994  \* a rendered placeholder ('(报数未知)', '深度未知')
FjDepthText == 0 - 999993  \* the string '未知深度'
NullValue == 0 - 999992    \* null (as a number it is 0: not NaN, and below 3.0)
Infinity == 999999         \* the number Infinity (JSON.parse('1e999'), parseFloat('Infinity'))

\* parseFloat: a number is itself, anything else here is NaN (lines 94, 251, 382)
parseFloat(v) ==
    IF v \in {Undefined, NonNumeric, NotApplicable, Dash, NullValue, NaN} THEN NaN ELSE v

\* isNaN(v) is Number.isNaN(Number(v)): true of undefined and of such strings
isNaN(v) == v \in {NaN, Undefined, NonNumeric, NotApplicable, Dash}

\* JavaScript truthiness of a number-or-missing value
Truthy(v) == v \notin {0, NaN, Undefined}

\* Identifiers (Map keys).  A string 'E<n>' from a feed, a number n from a
\* feed, or the string `test-${Date.now()}-${Math.random()...}` synthesized
\* n-th; keys of different kinds are never equal (SameValueZero).
StrKey(n) == [kind |-> "string", n |-> n]
NumKey(n) == [kind |-> "number", n |-> n]
TestKey(n) == [kind |-> "test", n |-> n]
NoKey == [kind |-> "none", n |-> 0]

\* eventId.startsWith('test-'), line 659: a TypeError on a number
IsString(id) == id.kind \in {"string", "test"}
StartsWithTest(id) == id.kind = "test"

---------------------------------------------------------------------------
(* estimateIntensity, lines 88-111 *)

\* Math.log10, in millionths, on the depths the model uses
Log10Micro(h) ==
    CASE h = 1 -> 0
      [] h = 5 -> 698970
      [] h = 10 -> 1000000
      [] h = 15 -> 1176091
      [] h = 20 -> 1301030
      [] h = 30 -> 1477121
      [] h = 40 -> 1602060
      [] h = 100 -> 2000000
      [] h = 700 -> 2845098

Max(a, b) == IF a > b THEN a ELSE b
Min(a, b) == IF a < b THEN a ELSE b

\* a depth default of 1 km instead of 10 km
ActualDepthOrOne(depth) ==
    IF isNaN(parseFloat(depth)) \/ parseFloat(depth) <= 0 THEN 1 ELSE parseFloat(depth)

\* lines 94-98
ActualDepth(depth) ==
    IF isNaN(parseFloat(depth)) \/ parseFloat(depth) <= 0 THEN 10 ELSE parseFloat(depth)

\* estimateIntensity with Math.floor in place of the Math.round of line 107
estimateIntensityFloored(magnitude, depth) ==
    IF isNaN(magnitude) \/ magnitude < 30
    THEN 0
    ELSE LET Clamped(actualDepth) ==
                 IF magnitude = Infinity /\ actualDepth = Infinity THEN NaN
                 ELSE IF magnitude = Infinity THEN 12
                 ELSE IF actualDepth = Infinity THEN 0
                 ELSE Max(0, Min(12, (300000 * magnitude + 6000000
                                      - 7 * Log10Micro(actualDepth))
                                     \div 2000000))
         IN  Clamped(ActualDepth(depth))

\* lines 88-111.  magnitude in tenths; the sum below is twice the estimate, in
\* millionths, and Math.round(x) is floor(x + 0.5).  With Infinity the
\* arithmetic of lines 101-110 is IEEE 754's: Infinity - Infinity is NaN, and
\* Math.round, Math.min and Math.max of NaN are NaN.
estimateIntensity(magnitude, depth) ==
    IF isNaN(magnitude) \/ magnitude < 30
    THEN 0
    ELSE LET Clamped(actualDepth) ==
                 IF magnitude = Infinity /\ actualDepth = Infinity THEN NaN
                 ELSE IF magnitude = Infinity THEN 12
                 ELSE IF actualDepth = Infinity THEN 0
                 ELSE Max(0, Min(12, (300000 * magnitude + 6000000
                                      - 7 * Log10Micro(actualDepth) + 1000000)
                                     \div 2000000))
         IN  Clamped(ActualDepth(depth))

---------------------------------------------------------------------------
(* Snapshots: what a feed answers, and what the test button builds *)

\* a feed's JSON, with the fields the program reads
Snap(type, eid, id, serial, lat, lon, mag, depth, maxI, report, cancel, final) ==
    [type |-> type, EventID |-> eid, ID |-> id, Serial |-> serial,
     Latitude |-> lat, Longitude |-> lon, Magunitude |-> mag, Depth |-> depth,
     MaxIntensity |-> maxI, ReportNum |-> report,
     HypoCenter |-> IF type = "jma_eew" THEN "" ELSE "Aba, Sichuan",
     Hypocenter |-> IF type = "jma_eew" THEN "Off Fukushima" ELSE "",
     OriginTime |-> "2025/06/15 08:00:00",
     isCancel |-> cancel, isFinal |-> final, name |-> "", IssueSource |-> ""]

\* fetchData's null (line 77)
NullData == Snap("null", NoKey, NoKey, 0, Undefined, Undefined, Undefined, Undefined,
                 Undefined, 0, FALSE, FALSE)

IsNull(data) == data.type = "null"

E1 == StrKey(1)

\* What the feeds may answer.  EventID is the string 'E1', or there is no
\* EventID and the number 7 is the ID, or neither and the number 5 is the Serial.
ScReport1 == Snap("sc_eew", E1, NoKey, 0, 3100, 10300, 68, 20, 7, 1, FALSE, FALSE)
ScReport2 == Snap("sc_eew", E1, NoKey, 0, 3100, 10300, 70, 20, 7, 2, FALSE, FALSE)
JmaCancel == Snap("jma_eew", E1, NoKey, 3, 3600, 14100, 73, 40, 6, 0, TRUE, FALSE)
FjFinal == Snap("fj_eew", E1, NoKey, 0, 2500, 11900, 55, Undefined, Undefined, 3, FALSE, TRUE)
ScFinalFlag == Snap("sc_eew", E1, NoKey, 0, 3100, 10300, 68, 20, 7, 1, FALSE, TRUE)
ScLatZero == Snap("sc_eew", E1, NoKey, 0, 0, 10300, 68, 20, 7, 5, FALSE, FALSE)
ScLatText == Snap("sc_eew", E1, NoKey, 0, NonNumeric, 10300, 68, 20, 7, 6, FALSE, FALSE)
UnknownKind == Snap("xx_eew", E1, NoKey, 0, 3100, 10300, 68, 20, 7, 7, FALSE, FALSE)
CwaNumericId == Snap("cwa_eew", NoKey, NumKey(7), 0, 2350, 11850, 71, Undefined, 8, 1, FALSE, FALSE)
JmaSerialOnly == Snap("jma_eew", NoKey, NoKey, 5, 3600, 14100, 73, 40, 6, 0, FALSE, FALSE)
\* a depth that is no number ('shallow') and a MaxIntensity of null
ScNoDepth == Snap("sc_eew", E1, NoKey, 0, 3100, 10300, 68, NonNumeric, NullValue, 1, FALSE, FALSE)

\* A behaviour draws its snapshots from one of these pools, and has the test
\* button (line 594) or not.
Scenarios ==
    { [pool |-> {ScReport1, ScReport2, JmaCancel, FjFinal, ScFinalFlag}, button |-> FALSE],
      [pool |-> {ScReport1, ScLatZero, ScLatText, UnknownKind}, button |-> FALSE],
      [pool |-> {CwaNumericId}, button |-> FALSE],
      [pool |-> {JmaSerialOnly}, button |-> FALSE],
      [pool |-> {ScNoDepth}, button |-> FALSE],
      [pool |-> {}, button |-> TRUE] }

\* Math.floor(Math.random() * 10) + 1 of lines 598-601, cut to one value
TestReportNums == {1}

\* Math.floor(Math.random() * testLocations.length) of line 604, cut to two
TestLocationChoices == {1, 2}

\* testLocations[i], lines 597-602, with the EventID of line 610
TestLocation(i, report, eid) ==
    [ CASE i = 1 -> Snap("sc_eew", eid, NoKey, 0, 3100, 10300, 68, 20, 7, report, FALSE, FALSE)
        [] i = 2 -> Snap("fj_eew", eid, NoKey, 0, 2500, 11900, 55, 15, 5, report, FALSE, FALSE)
        [] i = 3 -> Snap("cwa_eew", eid, NoKey, 0, 2350, 11850, 71, 30, 8, report, FALSE, FALSE)
        [] i = 4 -> Snap("jma_eew", eid, NoKey, report, 3600, 14100, 73, 40, 6, 0, FALSE, FALSE)
      EXCEPT !.name = "test", !.IssueSource = IF i = 4 THEN "JMA" ELSE "" ]

\* data.EventID || data.ID, lines 230, 350, 649: the first truthy one
IdOf(data) ==
    IF data.EventID # NoKey THEN data.EventID
    ELSE IF data.ID # NoKey THEN data.ID
    ELSE NoKey

---------------------------------------------------------------------------
(* Map and handle helpers *)

\* Map.has / Map.get / Map.set / Map.delete on activeEewAlerts, in insertion order
Has(m, id) == \E i \in DOMAIN m : m[i].eventId = id
Get(m, id) == m[CHOOSE i \in DOMAIN m : m[i].eventId = id]
MapSet(m, entry) ==
    IF Has(m, entry.eventId)
    THEN [i \in DOMAIN m |-> IF m[i].eventId = entry.eventId THEN entry ELSE m[i]]
    ELSE Append(m, entry)
MapDelete(m, id) == SelectSeq(m, LAMBDA e : e.eventId # id)

\* a function without one key
Without(f, k) == [x \in DOMAIN f \ {k} |-> f[x]]
\* a function with one key set
With(f, k, v) == [x \in DOMAIN f \cup {k} |-> IF x = k THEN v ELSE f[x]]

\* the handle a new timer, frame, element or overlay gets: one no pending
\* callback and no record holds
LeastFree(used) ==
    CHOOSE n \in 1..(Cardinality(used) + 1) :
        n \notin used /\ \A m \in 1..(n - 1) : m \in used

\* the handles of setTimeout and requestAnimationFrame are new numbers at each
\* call.  An expiry timer gets a number no pending expiry timer and no alert
\* holds.  A closure of addEarthquake has at most one frame and at most one
\* view-fit timer pending (lines 545, 571, 586), so these are named after it.
TimerIds(s) ==
    {t.id : t \in s.expiryTimers}
    \cup {s.activeEewAlerts[i].timeoutId : i \in DOMAIN s.activeEewAlerts}

FrameOf(sim) == sim
FitTimerOf(sim) == sim

ElementIds(s) ==
    DOMAIN s.container
    \cup {s.activeEewAlerts[i].element : i \in DOMAIN s.activeEewAlerts}
    \cup {t.element : t \in s.expiryTimers}

SimIds(s) == DOMAIN s.sims \cup s.mapObjects

---------------------------------------------------------------------------
(* createEewAlertElement, lines 226-333 *)

\* the fields read per source kind, lines 233-296
RawFields(data) ==
    LET base == [reportNum |-> 0, hypoCenter |-> "", originTime |-> "",
                 magnitudeDisplay |-> Undefined, depthDisplay |-> Undefined,
                 maxIntensityDisplay |-> Dash, sourceAgency |-> "unknown agency",
                 rawMagnitudeForCalc |-> NullValue, rawDepthForCalc |-> NullValue]
        common == [base EXCEPT !.reportNum = data.ReportNum,
                               !.hypoCenter = data.HypoCenter,
                               !.originTime = data.OriginTime,
                               !.magnitudeDisplay = data.Magunitude,
                               !.rawMagnitudeForCalc = parseFloat(data.Magunitude),
                               !.depthDisplay = data.Depth,
                               !.rawDepthForCalc = parseFloat(data.Depth),
                               !.maxIntensityDisplay = data.MaxIntensity]
    IN  CASE data.type = "sc_eew" ->
               [common EXCEPT !.sourceAgency = "Sichuan Earthquake Administration"]
          [] data.type = "fj_eew" ->
               [common EXCEPT !.depthDisplay = FjDepthText,
                              !.rawDepthForCalc = 10,
                              !.maxIntensityDisplay = NotApplicable,
                              !.sourceAgency = "Fujian Earthquake Administration"]
          [] data.type = "cwa_eew" ->
               [common EXCEPT !.sourceAgency = "Central Weather Administration"]
          [] data.type = "jma_eew" ->
               [common EXCEPT !.reportNum = data.Serial,
                              !.hypoCenter = data.Hypocenter,
                              !.sourceAgency = IF data.IssueSource # "" THEN data.IssueSource
                                               ELSE "Japan Meteorological Agency"]
          [] data.type = "test_eew" ->
               [common EXCEPT !.reportNum = IF Truthy(data.ReportNum) THEN data.ReportNum
                                            ELSE data.Serial,
                              !.hypoCenter = IF data.HypoCenter # "" THEN data.HypoCenter
                                             ELSE data.Hypocenter,
                              !.sourceAgency = (IF data.name # "" THEN data.name ELSE "test")
                                               \o " simulated agency"]
          [] OTHER -> base

\* an intensity selection that prefers the value of the feed, and estimates
\* only when the feed has none
IntensityFromFeedFirst(raw) ==
    IF raw.maxIntensityDisplay \notin {NotApplicable, Undefined, NullValue}
    THEN raw.maxIntensityDisplay
    ELSE IF ~isNaN(raw.rawMagnitudeForCalc) /\ ~isNaN(raw.rawDepthForCalc)
         THEN estimateIntensity(raw.rawMagnitudeForCalc, raw.rawDepthForCalc)
         ELSE Dash

\* the intensity shown, lines 298-307
IntensityShown(raw) ==
    IF ~isNaN(raw.rawMagnitudeForCalc) /\ ~isNaN(raw.rawDepthForCalc)
    THEN estimateIntensity(raw.rawMagnitudeForCalc, raw.rawDepthForCalc)
    ELSE IF raw.maxIntensityDisplay \in {NotApplicable, Undefined, NullValue}
         THEN Dash
         ELSE raw.maxIntensityDisplay

\* the banner's innerHTML, lines 309-329, as the values it renders
Content(data) ==
    LET innerHTML(raw, shown) ==
            [reportNum |-> IF Truthy(raw.reportNum) THEN raw.reportNum ELSE UnknownText,
             intensity |-> shown,
             color |-> IF shown \in 0..12 THEN shown ELSE 0,
             location |-> IF raw.hypoCenter # "" THEN raw.hypoCenter ELSE "unknown location",
             agency |-> raw.sourceAgency,
             originTime |-> IF raw.originTime # "" THEN raw.originTime ELSE "unknown time",
             magnitude |-> raw.magnitudeDisplay,
             depth |-> IF Truthy(raw.depthDisplay) THEN raw.depthDisplay ELSE UnknownText]
    IN  innerHTML(RawFields(data), IntensityShown(RawFields(data)))

\* a new element with that content, appended to eewAlertsContainer (line 331);
\* the result is the new state and the element
createEewAlertElement(s, data) ==
    LET el == LeastFree(ElementIds(s))
        attr == IF IdOf(data) # NoKey THEN IdOf(data) ELSE [kind |-> "anonymous", n |-> el]
        item == [eventId |-> attr, content |-> Content(data),
                 hidden |-> FALSE, listener |-> FALSE]
    IN  [s |-> [s EXCEPT !.container = With(s.container, el, item)], el |-> el]

---------------------------------------------------------------------------
(* The wave simulation: addEarthquake, lines 441-590 *)

InitialView == [center |-> INITIAL_MAP_CENTER, zoom |-> INITIAL_MAP_ZOOM, fitted |-> FALSE]

\* a clearTimeout that clears nothing: what displayEew would do had it
\* forgotten to clear the old timer
forgetTimeout(timers, id) == timers

\* clearTimeout / cancelAnimationFrame: no effect on a handle that is not pending
clearTimeout(timers, id) == {t \in timers : t.id # id}
cancelAnimationFrame(pending, id) == {f \in pending : f.id # id}

\* the cleanup that opens addEarthquake, lines 443-449
RemoveExistingAnimation(s, eventId) ==
    IF eventId \in DOMAIN s.activeWaveAnimations
    THEN LET existingAnimation == s.activeWaveAnimations[eventId]
         IN  [s EXCEPT
                !.frames = cancelAnimationFrame(@, existingAnimation.animationFrameId),
                !.fitViewTimers = IF existingAnimation.fitViewTimer # 0
                                  THEN clearTimeout(@, existingAnimation.fitViewTimer)
                                  ELSE @,
                !.mapObjects = @ \ {existingAnimation.sim},
                !.activeWaveAnimations = Without(@, eventId)]
    ELSE s

\* a teardown that leaves the simulation alone: the cancel/final branch without
\* its second block (lines 365-374)
KeepWaveAnimation(s, eventId) == s

\* the teardown of the cancel/final branch (lines 365-374) and of the
\* cycle-miss eviction (lines 669-678): the same, and the view reset
StopWaveAnimation(s, eventId) ==
    IF eventId \in DOMAIN s.activeWaveAnimations
    THEN [RemoveExistingAnimation(s, eventId) EXCEPT !.view = InitialView]
    ELSE s

\* the fitViewTimer stored in the registry record, line 589: the value the
\* closure's variable has when the record is built.  (The lastUpdateTime stored
\* beside it is never read, and is left out.)
RecordedFitViewTimer(closure) == closure.fitViewTimer

\* lines 499-501
maxAnimationDuration_s == ALERT_DISPLAY_DURATION_MS \div 1000
pWaveMaxRadius == pWaveSpeed_m_s * maxAnimationDuration_s
sWaveMaxRadius == sWaveSpeed_m_s * maxAnimationDuration_s

\* the opacities the circles start with (lines 473, 476, 483, 486) and decay
\* from (lines 520-524), in tenths
pWaveStrokeOpacity0 == 8
pWaveFillOpacity0 == 1
sWaveStrokeOpacity0 == 10
sWaveFillOpacity0 == 2

\* an opacity that grows with the radius: lines 520-524 without their `1 -`
OpacityGrowing(initial, radius, maxRadius) == Max(0, initial * radius)

\* lines 520-529: Math.max(0, initial * (1 - radius / maxRadius)), where
\* initial is in tenths and the result in units of 1 / (10 * maxRadius)
Opacity(initial, radius, maxRadius) == Max(0, initial * (maxRadius - radius))

\* setRadius and setOptions, lines 531-541 (and the constructors, lines 469-487)
Drawn(closure) ==
    [closure EXCEPT
       !.pWaveStrokeOpacity = Opacity(pWaveStrokeOpacity0, closure.pWaveRadius, pWaveMaxRadius),
       !.pWaveFillOpacity = Opacity(pWaveFillOpacity0, closure.pWaveRadius, pWaveMaxRadius),
       !.sWaveStrokeOpacity = Opacity(sWaveStrokeOpacity0, closure.sWaveRadius, sWaveMaxRadius),
       !.sWaveFillOpacity = Opacity(sWaveFillOpacity0, closure.sWaveRadius, sWaveMaxRadius)]

addEarthquake(s, lat, lon, magnitude, eventId) ==
    LET s1 == RemoveExistingAnimation(s, eventId)
        sim == LeastFree(SimIds(s1))
        animationFrameId == FrameOf(sim)
        closure == Drawn([eventId |-> eventId, center |-> <<lon, lat>>,
                          pWaveRadius |-> 0, sWaveRadius |-> 0,
                          pWaveStrokeOpacity |-> 0, pWaveFillOpacity |-> 0,
                          sWaveStrokeOpacity |-> 0, sWaveFillOpacity |-> 0,
                          sinceUpdate |-> 0, sinceStart |-> 0, fitViewTimer |-> 0])
    IN  [s1 EXCEPT
           !.view = [center |-> <<lon, lat>>, zoom |-> EpicenterZoom, fitted |-> FALSE],
           !.mapObjects = @ \cup {sim},
           !.sims = With(@, sim, closure),
           !.frames = @ \cup {[id |-> animationFrameId, sim |-> sim]},
           !.activeWaveAnimations =
               With(@, eventId, [sim |-> sim, animationFrameId |-> animationFrameId,
                                 fitViewTimer |-> RecordedFitViewTimer(closure)])]

\* closures nothing can run or reach any more are dropped
Collect(s) ==
    LET live == {f.sim : f \in s.frames} \cup {t.sim : t \in s.fitViewTimers}
                \cup {s.activeWaveAnimations[k].sim : k \in DOMAIN s.activeWaveAnimations}
    IN  [s EXCEPT !.sims = [x \in DOMAIN @ \cap live |-> @[x]]]

---------------------------------------------------------------------------
(* displayEew, lines 340-432 *)

\* lines 342-346
IsCancel(data) == data.type = "jma_eew" /\ data.isCancel
IsFinal(data) == (data.type = "jma_eew" /\ data.isFinal) \/ (data.type = "fj_eew" /\ data.isFinal)

\* line 350; the synthesized identifier is a new one at every call
EventIdOf(s, data) == IF IdOf(data) # NoKey THEN IdOf(data) ELSE TestKey(s.nextTestId + 1)

\* element.classList.add('hidden') and the transitionend listener that removes it
HideElement(s, el) ==
    IF el \in DOMAIN s.container
    THEN [s EXCEPT !.container[el].hidden = TRUE, !.container[el].listener = TRUE]
    ELSE s

\* lines 353-376
CancelOrFinal(s, eventId) ==
    LET s1 == IF Has(s.activeEewAlerts, eventId)
              THEN LET alert == Get(s.activeEewAlerts, eventId)
                       cleared == [s EXCEPT !.expiryTimers = clearTimeout(@, alert.timeoutId)]
                   IN  [HideElement(cleared, alert.element) EXCEPT
                          !.activeEewAlerts = MapDelete(@, eventId)]
              ELSE s
    IN  StopWaveAnimation(s1, eventId)

RecognizedTypes == {"sc_eew", "fj_eew", "cwa_eew", "test_eew", "jma_eew"}

\* a parse that does not look at the kind of the snapshot
ParsedOfAnyKind(data, value) == parseFloat(value)

\* lines 378-389: undefined for a source kind no branch names
Parsed(data, value) == IF data.type \in RecognizedTypes THEN parseFloat(value) ELSE Undefined

\* line 392 without its checks of lat
ShouldDisplayIgnoringLatitude(lat, lon, magnitude) ==
    /\ Truthy(lon) /\ Truthy(magnitude)
    /\ ~isNaN(lon) /\ ~isNaN(magnitude)

\* line 392
ShouldDisplay(lat, lon, magnitude) ==
    /\ Truthy(lat) /\ Truthy(lon) /\ Truthy(magnitude)
    /\ ~isNaN(lat) /\ ~isNaN(lon) /\ ~isNaN(magnitude)

\* lines 395-410: the element that shows the alert, after an update or a creation
ShowAlert(s, data, eventId) ==
    IF Has(s.activeEewAlerts, eventId)
    THEN LET existingAlert == Get(s.activeEewAlerts, eventId)
             cleared == [s EXCEPT !.expiryTimers = clearTimeout(@, existingAlert.timeoutId)]
             \* lines 400-403: the old element takes the new one's innerHTML
             Refresh(made, el) ==
                 [s |-> IF el \in DOMAIN made.s.container
                        THEN [made.s EXCEPT
                                !.container[el].content = made.s.container[made.el].content,
                                !.container[el].hidden = FALSE]
                        ELSE made.s,
                  el |-> el]
         IN  Refresh(createEewAlertElement(cleared, data), existingAlert.element)
    ELSE createEewAlertElement(s, data)

\* lines 392-425
CreateOrUpdate(s, data, eventId, lat, lon, magnitude) ==
    LET \* lines 413-422: the expiry timer and the registry entry
        Register(shown, newTimeoutId) ==
            [shown.s EXCEPT
               !.expiryTimers = @ \cup {[id |-> newTimeoutId, eventId |-> eventId,
                                         element |-> shown.el,
                                         remaining |-> ALERT_DISPLAY_DURATION_MS]},
               !.activeEewAlerts = MapSet(@, [eventId |-> eventId, element |-> shown.el,
                                              timeoutId |-> newTimeoutId]),
               !.nextTestId = IF IdOf(data) = NoKey THEN @ + 1 ELSE @]
        Arm(shown) == Register(shown, LeastFree(TimerIds(shown.s)))
    IN  addEarthquake(Arm(ShowAlert(s, data, eventId)), lat, lon, magnitude, eventId)

\* the whole call: the new state, the branch taken and the identifier used
displayEew(s, data) ==
    IF IsNull(data)
    THEN [s |-> s, branch |-> "threw", eventId |-> NoKey]
    ELSE LET eventId == EventIdOf(s, data)
             lat == Parsed(data, data.Latitude)
             lon == Parsed(data, data.Longitude)
             magnitude == Parsed(data, data.Magunitude)
         IN  IF IsCancel(data) \/ IsFinal(data)
             THEN [s |-> Collect(CancelOrFinal(s, eventId)),
                   branch |-> "cancel", eventId |-> eventId]
             ELSE IF ShouldDisplay(lat, lon, magnitude)
             THEN [s |-> Collect(CreateOrUpdate(s, data, eventId, lat, lon, magnitude)),
                   branch |-> IF Has(s.activeEewAlerts, eventId) THEN "update" ELSE "create",
                   eventId |-> eventId]
             ELSE [s |-> s, branch |-> "ignored", eventId |-> eventId]

---------------------------------------------------------------------------
(* animateWaves and its view-fit timer, lines 506-583 *)

\* the view map.setFitView computes from the overlays (line 562)
FittedZoom == 0 - 1
FittedView(closure) == [center |-> closure.center, zoom |-> FittedZoom, fitted |-> TRUE]

\* lines 545-566: at most one view-fit timer per closure
ScheduleFitView(s, sim) ==
    IF s.sims[sim].fitViewTimer = 0
    THEN LET id == FitTimerOf(sim)
         IN  [s EXCEPT !.sims[sim].fitViewTimer = id,
                       !.fitViewTimers = @ \cup {[id |-> id, sim |-> sim]}]
    ELSE s

\* lines 569-571 alone: the animation goes on whatever the radii are
KeepAnimating(s, sim) ==
    IF s.sims[sim].eventId \in DOMAIN s.activeWaveAnimations
    THEN [s EXCEPT !.activeWaveAnimations[s.sims[sim].eventId].animationFrameId = FrameOf(sim),
                   !.frames = @ \cup {[id |-> FrameOf(sim), sim |-> sim]}]
    ELSE s

\* lines 569-582: go on, or end the simulation
ContinueOrEnd(s, sim) ==
    LET closure == s.sims[sim]
        eventId == closure.eventId
    IN  IF closure.pWaveRadius < pWaveMaxRadius \/ closure.sWaveRadius < sWaveMaxRadius
        THEN IF eventId \in DOMAIN s.activeWaveAnimations
             THEN LET id == FrameOf(sim)
                  IN  [s EXCEPT !.activeWaveAnimations[eventId].animationFrameId = id,
                                !.frames = @ \cup {[id |-> id, sim |-> sim]}]
             ELSE s  \* TypeError at line 571: nothing is requested
        ELSE [s EXCEPT
                !.fitViewTimers = IF closure.fitViewTimer # 0
                                  THEN clearTimeout(@, closure.fitViewTimer)
                                  ELSE @,
                !.mapObjects = @ \ {sim},
                !.activeWaveAnimations = IF eventId \in DOMAIN @ THEN Without(@, eventId) ELSE @,
                !.view = InitialView]

\* lines 507-541: the radii and the opacities after a frame; deltaTime is in seconds
MoveWaves(closure) ==
    LET deltaTime == closure.sinceUpdate \div 1000
    IN  Drawn([closure EXCEPT
                 !.sinceUpdate = 0,
                 !.pWaveRadius = Min(@ + pWaveSpeed_m_s * deltaTime, pWaveMaxRadius),
                 !.sWaveRadius = Min(@ + sWaveSpeed_m_s * deltaTime, sWaveMaxRadius)])

\* one animation frame f without line 508: lastUpdateTime is never moved on
animateWavesFromStart(s, f) ==
    LET closure == s.sims[f.sim]
        deltaTime == closure.sinceUpdate \div 1000
        moved == Drawn([closure EXCEPT
                    !.pWaveRadius = Min(@ + pWaveSpeed_m_s * deltaTime, pWaveMaxRadius),
                    !.sWaveRadius = Min(@ + sWaveSpeed_m_s * deltaTime, sWaveMaxRadius)])
    IN  Collect(ContinueOrEnd(ScheduleFitView([s EXCEPT !.frames = @ \ {f},
                                                        !.sims[f.sim] = moved], f.sim),
                              f.sim))

\* one animation frame f, lines 506-583
animateWaves(s, f) ==
    LET s1 == [s EXCEPT !.frames = @ \ {f}, !.sims[f.sim] = MoveWaves(@)]
    IN  Collect(ContinueOrEnd(ScheduleFitView(s1, f.sim), f.sim))

\* the view-fit callback, lines 546-565; hasBounds: whether getBounds gave bounds
fitViewCallback(s, t, hasBounds) ==
    LET s1 == [s EXCEPT !.fitViewTimers = @ \ {t},
                        !.sims[t.sim].fitViewTimer = 0,
                        !.view = IF hasBounds THEN FittedView(s.sims[t.sim]) ELSE @]
    IN  Collect(s1)

---------------------------------------------------------------------------
(* The expiry callback, lines 413-420 *)

expiryCallback(s, t) ==
    [HideElement([s EXCEPT !.expiryTimers = @ \ {t}], t.element) EXCEPT
        !.activeEewAlerts = MapDelete(@, t.eventId)]

---------------------------------------------------------------------------
(* The polling cycle after its fetches have settled, lines 646-680 *)

\* what each of eewSources (line 49-54) may answer, in the order of the list
FeedAnswers(i) ==
    {NullData} \cup
    CASE i = 1 -> {d \in pool : d.type = "sc_eew"}
      [] i = 2 -> {d \in pool : d.type = "fj_eew"}
      [] i = 3 -> {d \in pool : d.type = "jma_eew"}
      [] i = 4 -> {d \in pool : d.type \in {"cwa_eew", "xx_eew"}}

\* eewResults, line 643: one answer per source
PollAnswers == FeedAnswers(1) \X FeedAnswers(2) \X FeedAnswers(3) \X FeedAnswers(4)

\* line 649
Accepted(data) == ~IsNull(data) /\ (IdOf(data) # NoKey \/ Truthy(data.Serial))

\* line 650: data.EventID || data.ID || data.Serial
ReceivedKey(data) == IF IdOf(data) # NoKey THEN IdOf(data) ELSE NumKey(data.Serial)

ReceivedEventIds(eewResults) ==
    {ReceivedKey(eewResults[i]) : i \in {j \in DOMAIN eewResults : Accepted(eewResults[j])}}

\* lines 648-653, from result i on
RECURSIVE ProcessResults(_, _, _)
ProcessResults(s, eewResults, i) ==
    IF i > Len(eewResults)
    THEN s
    ELSE ProcessResults(IF Accepted(eewResults[i])
                        THEN displayEew(s, eewResults[i]).s
                        ELSE s,
                        eewResults, i + 1)

\* the body of the forEach for one entry that is evicted, lines 661-678
EvictAlert(s, eventId) ==
    LET value == Get(s.activeEewAlerts, eventId)
        cleared == [s EXCEPT !.expiryTimers = clearTimeout(@, value.timeoutId)]
        hidden == [HideElement(cleared, value.element) EXCEPT
                     !.activeEewAlerts = MapDelete(@, eventId)]
    IN  StopWaveAnimation(hidden, eventId)

\* activeEewAlerts.forEach, lines 656-680, over the keys in insertion order;
\* startsWith on a key that is no string raises a TypeError and ends the pass
RECURSIVE EvictMissing(_, _, _, _)
EvictMissing(s, keys, i, received) ==
    IF i > Len(keys)
    THEN [s |-> s, threw |-> FALSE]
    ELSE IF ~IsString(keys[i])
    THEN [s |-> s, threw |-> TRUE]
    ELSE EvictMissing(IF keys[i] \notin received /\ ~StartsWithTest(keys[i])
                      THEN EvictAlert(s, keys[i])
                      ELSE s,
                      keys, i + 1, received)

Keys(m) == [i \in DOMAIN m |-> m[i].eventId]

pollCycle(s, eewResults) ==
    LET Finish(evicted) == [s |-> Collect(evicted.s), threw |-> evicted.threw]
        Evict(processed) ==
            Finish(EvictMissing(processed, Keys(processed.activeEewAlerts), 1,
                                ReceivedEventIds(eewResults)))
    IN  Evict(ProcessResults(s, eewResults, 1))

---------------------------------------------------------------------------
(* The state machine *)

\* the program's state as one record, and back
Cur ==
    [activeEewAlerts |-> activeEewAlerts, activeWaveAnimations |-> activeWaveAnimations,
     expiryTimers |-> expiryTimers, fitViewTimers |-> fitViewTimers, frames |-> frames,
     sims |-> sims, container |-> container, mapObjects |-> mapObjects, view |-> view,
     nextTestId |-> nextTestId]

Becomes(s) ==
    /\ activeEewAlerts' = s.activeEewAlerts
    /\ activeWaveAnimations' = s.activeWaveAnimations
    /\ expiryTimers' = s.expiryTimers
    /\ fitViewTimers' = s.fitViewTimers
    /\ frames' = s.frames
    /\ sims' = s.sims
    /\ container' = s.container
    /\ mapObjects' = s.mapObjects
    /\ view' = s.view
    /\ nextTestId' = s.nextTestId

\* the caps that keep the model finite
InBounds(s) ==
    /\ Cardinality(DOMAIN s.container) <= MaxElements
    /\ Cardinality(DOMAIN s.sims) <= MaxSims
    /\ s.nextTestId <= MaxTestIds

\* the record of the callback that ran last
Op(kind, data, eventId, branch, wasActive, received, threw) ==
    [kind |-> kind, data |-> data, eventId |-> eventId, branch |-> branch,
     wasActive |-> wasActive, received |-> received, threw |-> threw]

Other == Op("other", NullData, NoKey, "", FALSE, {}, FALSE)

\* whether closure sim is the one activeWaveAnimations holds for its identifier
Registered(sim) ==
    /\ sims[sim].eventId \in DOMAIN activeWaveAnimations
    /\ activeWaveAnimations[sims[sim].eventId].sim = sim

\* the arguments a call of estimateIntensity is given here: magnitudes in
\* tenths, depths in km
Magnitudes == ((0 - 10)..MaxMagnitude) \cup {NaN, Undefined, NonNumeric, NullValue, Infinity}
Depths == {1, 5, 10, 15, 20, 30, 40, 100, 700}
          \cup {0 - 5, 0 - 1, 0, NaN, Undefined, NonNumeric, NullValue, Infinity}

NoCall == [magnitude |-> NaN, depth |-> NaN, called |-> FALSE, estimatedI |-> 0]

Loaded ==
    /\ activeEewAlerts = <<>>
    /\ activeWaveAnimations = <<>>
    /\ expiryTimers = {}
    /\ fitViewTimers = {}
    /\ frames = {}
    /\ sims = <<>>
    /\ container = <<>>
    /\ mapObjects = {}
    /\ view = InitialView
    /\ nextTestId = 0
    /\ initialPending = NumEewSources
    /\ \E sc \in Scenarios : pool = sc.pool /\ testEewBtn = sc.button
    /\ cycles = <<>>
    /\ lastOp = Other

Init == Loaded /\ estimateCall = NoCall

\* the click handler of the test button, lines 595-615
TestClick ==
    /\ testEewBtn
    /\ \E i \in TestLocationChoices, report \in TestReportNums :
        \E testEewData \in {TestLocation(i, report, TestKey(nextTestId + 1))} :
        \E done \in {displayEew([Cur EXCEPT !.nextTestId = @ + 1], testEewData)} :
            /\ InBounds(done.s)
            /\ Becomes(done.s)
            /\ lastOp' = Op("displayEew", testEewData, done.eventId, done.branch,
                            Has(activeEewAlerts, done.eventId), {}, FALSE)
            /\ UNCHANGED <<initialPending, pool, testEewBtn, cycles, estimateCall>>

\* one fetch of the initial load resolving: fetchData(url).then(displayEew), line 637
InitialLoad ==
    /\ initialPending > NumEewSources - MaxInitialLoads
    /\ \E data \in pool \cup {NullData} :
        \E done \in {displayEew(Cur, data)} :
            /\ InBounds(done.s)
            /\ Becomes(done.s)
            /\ lastOp' = Op("displayEew", data, done.eventId, done.branch,
                            Has(activeEewAlerts, done.eventId), {}, done.branch = "threw")
    /\ initialPending' = initialPending - 1
    /\ UNCHANGED <<pool, testEewBtn, cycles, estimateCall>>

\* the interval callback once its four fetches have settled, lines 640-697
PollCycle ==
    \E eewResults \in PollAnswers :
        \E done \in {pollCycle(Cur, eewResults)} :
            /\ InBounds(done.s)
            /\ Becomes(done.s)
            /\ lastOp' = Op("poll", NullData, NoKey, "", FALSE,
                            ReceivedEventIds(eewResults), done.threw)
            /\ UNCHANGED <<initialPending, pool, testEewBtn, cycles, estimateCall>>

\* an expiry timer firing, no earlier than it is due
ExpiryTimeout ==
    \E t \in expiryTimers :
        /\ t.remaining = 0
        /\ \E done \in {expiryCallback(Cur, t)} : Becomes(done)
        /\ lastOp' = Op("expiry", NullData, t.eventId, "", Has(activeEewAlerts, t.eventId),
                        {}, FALSE)
        /\ UNCHANGED <<initialPending, pool, testEewBtn, cycles, estimateCall>>

\* an animation frame
AnimationFrame ==
    \E f \in frames :
        /\ \E done \in {animateWaves(Cur, f)} : Becomes(done)
        /\ lastOp' = Op("frame", NullData, sims[f.sim].eventId, "", Registered(f.sim),
                        {}, FALSE)
        /\ UNCHANGED <<initialPending, pool, testEewBtn, cycles, estimateCall>>

\* a view-fit timer firing
FitViewTimeout ==
    \E t \in fitViewTimers, hasBounds \in BOOLEAN :
        /\ \E done \in {fitViewCallback(Cur, t, hasBounds)} : Becomes(done)
        /\ lastOp' = Op("fitView", NullData, sims[t.sim].eventId, "", Registered(t.sim),
                        {}, FALSE)
        /\ UNCHANGED <<initialPending, pool, testEewBtn, cycles, estimateCall>>

\* the transition of a hidden banner ending: its listener removes it
TransitionEnd ==
    \E el \in DOMAIN container :
        /\ container[el].listener
        /\ container' = Without(container, el)
        /\ lastOp' = Other
        /\ UNCHANGED <<activeEewAlerts, activeWaveAnimations, expiryTimers,
                       fitViewTimers, frames, sims, mapObjects, view, nextTestId,
                       initialPending, pool, testEewBtn, cycles, estimateCall>>

\* ms passing: every clock moves, none beyond the point where it matters
\* (a timer is due at 0; a radius is capped after ALERT_DISPLAY_DURATION_MS)
Advance(ms) ==
    /\ expiryTimers' = {[t EXCEPT !.remaining = Max(0, @ - ms)] : t \in expiryTimers}
    /\ sims' = [x \in DOMAIN sims |->
                  [sims[x] EXCEPT !.sinceUpdate = Min(ALERT_DISPLAY_DURATION_MS, @ + ms),
                                  !.sinceStart = Min(ALERT_DISPLAY_DURATION_MS, @ + ms)]]
    /\ lastOp' = Other
    /\ UNCHANGED <<activeEewAlerts, activeWaveAnimations, fitViewTimers, frames,
                   container, mapObjects, view, nextTestId, initialPending, pool,
                   testEewBtn, cycles, estimateCall>>

Tick == Advance(TickMs)

\* a fetch of fetchData that has not settled
Pending == Snap("pending", NoKey, NoKey, 0, Undefined, Undefined, Undefined, Undefined,
                Undefined, 0, FALSE, FALSE)

\* a Promise.all that resolves as soon as one of the promises has settled
AnySettled(eewDataPromises) ==
    \E i \in DOMAIN eewDataPromises : eewDataPromises[i] # Pending

\* await Promise.all(eewDataPromises), line 643: fetchData never rejects, so
\* this resolves when every fetch has settled
AllSettled(eewDataPromises) ==
    \A i \in DOMAIN eewDataPromises : eewDataPromises[i] # Pending

\* the interval callback starting, lines 640-642: one fetch per source.
\* Nothing makes it wait for the cycle before it: setInterval calls it every
\* 5000 ms, whether or not an earlier call is still at its await.
StartCycle(maxInFlight) ==
    /\ Len(cycles) < maxInFlight
    /\ cycles' = Append(cycles, [i \in 1..NumEewSources |-> Pending])
    /\ lastOp' = Other
    /\ UNCHANGED <<activeEewAlerts, activeWaveAnimations, expiryTimers, fitViewTimers,
                   frames, sims, container, mapObjects, view, nextTestId,
                   initialPending, pool, testEewBtn, estimateCall>>

IntervalFires == StartCycle(MaxCyclesInFlight)

\* one fetchData of a cycle settling, lines 65-79: with the feed's answer, or
\* with null after any failure
FetchSettles ==
    \E c \in DOMAIN cycles, i \in 1..NumEewSources :
        /\ cycles[c][i] = Pending
        /\ \E data \in FeedAnswers(i) : cycles' = [cycles EXCEPT ![c][i] = data]
        /\ lastOp' = Other
        /\ UNCHANGED <<activeEewAlerts, activeWaveAnimations, expiryTimers,
                       fitViewTimers, frames, sims, container, mapObjects, view,
                       nextTestId, initialPending, pool, testEewBtn, estimateCall>>

\* the rest of the interval callback, lines 643-680, once its await is over
CycleContinues ==
    \E c \in DOMAIN cycles :
        /\ AllSettled(cycles[c])
        /\ \E done \in {pollCycle(Cur, cycles[c])} :
            /\ InBounds(done.s)
            /\ Becomes(done.s)
            /\ lastOp' = Op("poll", NullData, NoKey,
                            IF \E i \in DOMAIN cycles[c] : IsNull(cycles[c][i])
                            THEN "a fetch failed" ELSE "",
                            FALSE, ReceivedEventIds(cycles[c]), done.threw)
        /\ cycles' = [k \in 1..(Len(cycles) - 1) |->
                         IF k < c THEN cycles[k] ELSE cycles[k + 1]]
        /\ UNCHANGED <<initialPending, pool, testEewBtn, estimateCall>>

Next ==
    \/ TestClick
    \/ InitialLoad
    \/ PollCycle
    \/ ExpiryTimeout
    \/ AnimationFrame
    \/ FitViewTimeout
    \/ TransitionEnd
    \/ Tick

Spec == Init /\ [][Next]_vars

\* The page with the test button and feeds that answer nothing: its alerts
\* have `test-` identifiers, which no polling cycle evicts and no later
\* snapshot updates, so each lives until its own expiry timer.
LiveInit == Init /\ testEewBtn

\* time passes, and the run loop runs every timer that is due and every
\* animation frame that was requested
Fairness ==
    /\ WF_vars(Tick)
    /\ WF_vars(ExpiryTimeout)
    /\ WF_vars(AnimationFrame)
    /\ WF_vars(FitViewTimeout)
    /\ WF_vars(TransitionEnd)

LiveSpec == LiveInit /\ [][Next]_vars /\ Fairness

\* The polling cycle with its fetches in flight.  (In Next, PollCycle is the
\* same cycle taken from the moment its await is over: what the fetches answer
\* does not depend on the program's state.)
CycleNext ==
    \/ InitialLoad
    \/ IntervalFires
    \/ FetchSettles
    \/ CycleContinues
    \/ ExpiryTimeout
    \/ Tick

CycleSpec == Init /\ [][CycleNext]_vars

\* Polling cycles whose fetches take longer than the interval
SlowIntervalFires == StartCycle(MaxOverlappingCycles)

OverlapNext ==
    \/ SlowIntervalFires
    \/ FetchSettles
    \/ CycleContinues

OverlapSpec == Init /\ [][OverlapNext]_vars

\* estimateIntensity on its own, called once with any of the arguments
EstimateInit ==
    /\ Loaded
    /\ testEewBtn
    /\ estimateCall \in {[NoCall EXCEPT !.magnitude = m, !.depth = d] :
                            m \in Magnitudes, d \in Depths}

Estimate ==
    /\ ~estimateCall.called
    /\ estimateCall' = [estimateCall EXCEPT
                          !.called = TRUE,
                          !.estimatedI = estimateIntensity(estimateCall.magnitude,
                                                           estimateCall.depth)]
    /\ UNCHANGED <<activeEewAlerts, activeWaveAnimations, expiryTimers, fitViewTimers,
                   frames, sims, container, mapObjects, view, nextTestId,
                   initialPending, pool, testEewBtn, cycles, lastOp>>

EstimateSpec == EstimateInit /\ [][Estimate]_vars

\* The wave simulations of that page watched at a finer grain of time, so
\* that a simulation gets frames at several radii below the cap: the clicks
\* that start simulations, the callbacks of addEarthquake, and the clock.
WaveTick == Advance(WaveTickMs)

WaveNext ==
    \/ TestClick
    \/ AnimationFrame
    \/ FitViewTimeout
    \/ WaveTick

WaveSpec == LiveInit /\ [][WaveNext]_vars

---------------------------------------------------------------------------
(* Properties *)

AlertIds == {activeEewAlerts[i].eventId : i \in DOMAIN activeEewAlerts}

\* nothing of identifier id is left: no alert, no wave simulation, no pending
\* expiry timer, no epicenter or wave circle on the map
Removed(id) ==
    /\ id \notin AlertIds
    /\ id \notin DOMAIN activeWaveAnimations
    /\ \A t \in expiryTimers : t.eventId # id
    /\ \A x \in mapObjects : x \in DOMAIN sims /\ sims[x].eventId # id

\* the snapshot carries a cancel or a final-report flag, whatever its source kind
CarriesCancelOrFinal(data) == data.isCancel \/ data.isFinal

\* Latitude, Longitude and Magunitude of a recognized source kind all parse to
\* numbers, and the snapshot carries no cancel/final flag
ParsesToNumbers(data) ==
    /\ data.type \in RecognizedTypes
    /\ ~CarriesCancelOrFinal(data)
    /\ \A v \in {data.Latitude, data.Longitude, data.Magunitude} : ~isNaN(parseFloat(v))

\* the snapshot has no usable latitude, longitude or magnitude: one of them
\* is missing, is no number, or is 0
LacksValid(data) ==
    \/ data.type \notin RecognizedTypes
    \/ \E v \in {data.Latitude, data.Longitude, data.Magunitude} : parseFloat(v) \in {NaN, 0}

\* C1: when an expiry timer has fired, its identifier has no alert and no wave
\* simulation, its overlays are off the map and the view is the default one.
C1_ExpiryStopsWave ==
    lastOp.kind = "expiry" =>
        /\ lastOp.eventId \notin AlertIds
        /\ lastOp.eventId \notin DOMAIN activeWaveAnimations
        /\ \A x \in mapObjects : x \in DOMAIN sims /\ sims[x].eventId # lastOp.eventId
        /\ view = InitialView

\* C2, as stated: a snapshot of any source kind that carries cancel or final,
\* processed by displayEew for an active identifier, leaves nothing of it.
C2_AnyKindCancelRemoves ==
    ( /\ lastOp.kind = "displayEew"
      /\ CarriesCancelOrFinal(lastOp.data)
      /\ lastOp.wasActive )
    => Removed(lastOp.eventId)

\* C2, amended: a jma_eew snapshot with isCancel, or a jma_eew or fj_eew
\* snapshot with isFinal, processed by displayEew for an active identifier,
\* leaves no alert, no wave simulation, no expiry timer and no overlay of it.
C2_CancelOrFinalRemoves ==
    ( /\ lastOp.kind = "displayEew"
      /\ IsCancel(lastOp.data) \/ IsFinal(lastOp.data)
      /\ lastOp.wasActive )
    => Removed(lastOp.eventId)

C2_CancelOfActiveAlert ==
    /\ lastOp.kind = "displayEew"
    /\ IsCancel(lastOp.data) \/ IsFinal(lastOp.data)
    /\ lastOp.wasActive
    /\ Removed(lastOp.eventId)

\* C3: every animation-frame callback and every view-fit callback that runs
\* belongs to the simulation registered for its identifier when it runs.
C3_NoStaleCallbackRuns ==
    lastOp.kind \in {"frame", "fitView"} => lastOp.wasActive

\* C4: when a polling cycle has ended, every alert left either has an
\* identifier starting with 'test-' or was returned by a feed in that cycle.
C4_MissedAlertsEvicted ==
    lastOp.kind = "poll" =>
        \A id \in AlertIds : StartsWithTest(id) \/ id \in lastOp.received

\* C5: there is at most one alert per identifier, and when displayEew has
\* processed a snapshot whose latitude, longitude and magnitude are numbers,
\* the banner of its alert shows the fields of that snapshot.
C5_ShowsLatestValidSnapshot ==
    /\ \A i, j \in DOMAIN activeEewAlerts :
          activeEewAlerts[i].eventId = activeEewAlerts[j].eventId => i = j
    /\ ( /\ lastOp.kind = "displayEew"
         /\ ParsesToNumbers(lastOp.data)
         /\ lastOp.eventId \in AlertIds )
       => LET el == Get(activeEewAlerts, lastOp.eventId).element
          IN  /\ el \in DOMAIN container
              /\ container[el].content = Content(lastOp.data)

\* C6: an identifier has a wave simulation registered exactly when it has an
\* alert registered.
C6_WaveIffAlert == DOMAIN activeWaveAnimations = AlertIds

\* C7: every alert has exactly one pending expiry timer, the one stored as its
\* timeoutId; no expiry timer is pending for an identifier without an alert;
\* right after a creation or an update the timer is due in
\* ALERT_DISPLAY_DURATION_MS; an expiry callback that runs finds its alert.
C7_OneExpiryTimerPerAlert ==
    /\ \A i \in DOMAIN activeEewAlerts :
          LET alert == activeEewAlerts[i]
              own == {t \in expiryTimers : t.eventId = alert.eventId}
          IN  /\ Cardinality(own) = 1
              /\ \A t \in own : t.id = alert.timeoutId /\ t.element = alert.element
    /\ \A t \in expiryTimers : t.eventId \in AlertIds
    /\ \A t1, t2 \in expiryTimers : t1.id = t2.id => t1 = t2
    /\ ( /\ lastOp.kind = "displayEew"
         /\ lastOp.branch \in {"create", "update"} )
       => \A t \in expiryTimers :
              t.eventId = lastOp.eventId => t.remaining = ALERT_DISPLAY_DURATION_MS
    /\ lastOp.kind = "expiry" => lastOp.wasActive

\* an alert was updated, and has the timer that update set
C7_UpdatedAlertHasFreshTimer ==
    /\ lastOp.kind = "displayEew"
    /\ lastOp.branch = "update"
    /\ \E t \in expiryTimers :
          t.eventId = lastOp.eventId /\ t.remaining = ALERT_DISPLAY_DURATION_MS

\* C8: a snapshot of a recognized kind without cancel/final flag whose
\* latitude, longitude and magnitude all parse to numbers creates the alert if
\* its identifier has none, and updates it otherwise.
C8_NumbersAreDisplayed ==
    ( /\ lastOp.kind = "displayEew"
      /\ ParsesToNumbers(lastOp.data) )
    => /\ lastOp.branch = IF lastOp.wasActive THEN "update" ELSE "create"
       /\ lastOp.eventId \in AlertIds

\* C9: a displayEew call with a snapshot that is no cancel/final report and
\* lacks a valid latitude, longitude or magnitude changes neither registry, no
\* pending timer or frame, no banner, no overlay and not the view.
C9_InvalidSnapshotIsNoOp ==
    [][ ( /\ lastOp'.kind = "displayEew"
          /\ ~IsNull(lastOp'.data)
          /\ ~(IsCancel(lastOp'.data) \/ IsFinal(lastOp'.data))
          /\ LacksValid(lastOp'.data) )
        => UNCHANGED <<activeEewAlerts, activeWaveAnimations, expiryTimers,
                       fitViewTimers, frames, sims, container, mapObjects, view,
                       nextTestId>> ]_vars

\* such a snapshot was processed for an identifier that has an alert
C9_InvalidSnapshotForActiveAlert ==
    /\ lastOp.kind = "displayEew"
    /\ ~IsNull(lastOp.data)
    /\ ~(IsCancel(lastOp.data) \/ IsFinal(lastOp.data))
    /\ LacksValid(lastOp.data)
    /\ lastOp.wasActive
    /\ lastOp.eventId \in AlertIds

\* C10: the container holds at most one banner per identifier, and every
\* banner in it is the element of an active alert or is fading out.
C10_OneBannerPerIdentifier ==
    /\ \A e1, e2 \in DOMAIN container :
          container[e1].eventId = container[e2].eventId => e1 = e2
    /\ \A e \in DOMAIN container :
          \/ container[e].hidden
          \/ \E i \in DOMAIN activeEewAlerts : activeEewAlerts[i].element = e

\* nothing of identifier id is left at all, and the view is the default one
Gone(id) ==
    /\ Removed(id)
    /\ \A x \in DOMAIN sims : sims[x].eventId # id
    /\ \A f \in frames : f.sim \in DOMAIN sims /\ sims[f.sim].eventId # id
    /\ \A t \in fitViewTimers : t.sim \in DOMAIN sims /\ sims[t.sim].eventId # id
    /\ view = InitialView

\* both wavefronts of closure sim are at their capped radius
BothCapped(sim) ==
    /\ sims[sim].pWaveRadius >= pWaveMaxRadius
    /\ sims[sim].sWaveRadius >= sWaveMaxRadius

C12_NoWaveMeansDefaultView ==
    DOMAIN activeWaveAnimations = {} => view = InitialView

\* the time from the start of closure sim to its last frame (to its start, if
\* it had none); known as long as the clocks have not run to their end
ElapsedAtLastFrame(sim) == sims[sim].sinceStart - sims[sim].sinceUpdate

\* C13: from one callback to the next neither radius of a simulation
\* decreases; no radius exceeds its cap; and each radius is
\* min(speed x time from the simulation's start to its last frame, cap),
\* however many frames that time was split into.
C13_RadiiFollowElapsedTime ==
    /\ [][\A x \in DOMAIN sims \cap DOMAIN sims' :
             /\ sims'[x].pWaveRadius >= sims[x].pWaveRadius
             /\ sims'[x].sWaveRadius >= sims[x].sWaveRadius]_vars
    /\ [](\A x \in DOMAIN sims :
             /\ sims[x].pWaveRadius <= pWaveMaxRadius
             /\ sims[x].sWaveRadius <= sWaveMaxRadius
             /\ sims[x].sinceStart < ALERT_DISPLAY_DURATION_MS =>
                  /\ sims[x].pWaveRadius =
                       Min(pWaveSpeed_m_s * (ElapsedAtLastFrame(x) \div 1000), pWaveMaxRadius)
                  /\ sims[x].sWaveRadius =
                       Min(sWaveSpeed_m_s * (ElapsedAtLastFrame(x) \div 1000), sWaveMaxRadius))

\* a simulation has had frames at two different times and is below its caps
C13_SecondFrameBelowCap ==
    /\ lastOp.kind = "frame"
    /\ \E x \in DOMAIN sims :
          /\ sims[x].eventId = lastOp.eventId
          /\ sims[x].sinceUpdate = 0
          /\ sims[x].sinceStart >= 2 * WaveTickMs
          /\ sims[x].pWaveRadius = pWaveSpeed_m_s * (sims[x].sinceStart \div 1000)
          /\ sims[x].pWaveRadius < pWaveMaxRadius

\* opacity, in units of 1 / (10 * cap), is initial x (1 - radius / cap), is
\* not negative, and is 0 exactly at the cap
OpacityAsStated(opacity, initial, radius, cap) ==
    /\ opacity = initial * (cap - radius)
    /\ opacity >= 0
    /\ opacity = 0 <=> radius = cap

AllOpacitiesAsStated(closure) ==
    /\ OpacityAsStated(closure.pWaveStrokeOpacity, pWaveStrokeOpacity0,
                       closure.pWaveRadius, pWaveMaxRadius)
    /\ OpacityAsStated(closure.pWaveFillOpacity, pWaveFillOpacity0,
                       closure.pWaveRadius, pWaveMaxRadius)
    /\ OpacityAsStated(closure.sWaveStrokeOpacity, sWaveStrokeOpacity0,
                       closure.sWaveRadius, sWaveMaxRadius)
    /\ OpacityAsStated(closure.sWaveFillOpacity, sWaveFillOpacity0,
                       closure.sWaveRadius, sWaveMaxRadius)

\* C14: the opacities every simulation has, and the ones its next frame gives
\* it, are initial x (1 - radius / cap), not negative, and 0 exactly when the
\* radius is at its cap.
C14_OpacityDecaysToZeroAtCap ==
    \A x \in DOMAIN sims :
        /\ AllOpacitiesAsStated(sims[x])
        /\ AllOpacitiesAsStated(MoveWaves(sims[x]))

\* a simulation part of the way, whose next frame takes it to the caps
C14_LastFrameAhead ==
    \E x \in DOMAIN sims :
        /\ sims[x].pWaveRadius > 0
        /\ sims[x].pWaveStrokeOpacity > 0
        /\ sims[x].pWaveStrokeOpacity < pWaveStrokeOpacity0 * pWaveMaxRadius
        /\ MoveWaves(sims[x]).sWaveRadius = sWaveMaxRadius
        /\ MoveWaves(sims[x]).sWaveFillOpacity = 0

\* the magnitude and the depth a snapshot gives the calculation: parsed from
\* its fields, and depth 10 for fj_eew
MagnitudeForCalc(data) == parseFloat(data.Magunitude)
DepthForCalc(data) == IF data.type = "fj_eew" THEN 10 ELSE parseFloat(data.Depth)
FeedIntensity(data) == IF data.type = "fj_eew" THEN NotApplicable ELSE data.MaxIntensity

\* what the banner of a snapshot is to show as its intensity
StatedIntensity(data) ==
    IF MagnitudeForCalc(data) # NaN /\ DepthForCalc(data) # NaN
    THEN estimateIntensity(MagnitudeForCalc(data), DepthForCalc(data))
    ELSE IF FeedIntensity(data) \in {NotApplicable, Undefined, NullValue}
         THEN Dash
         ELSE FeedIntensity(data)

\* C15: when displayEew has created or updated an alert, its banner shows the
\* estimate from the snapshot's magnitude and depth if both are numbers (depth
\* 10 for fj_eew), whatever MaxIntensity the feed gave, and otherwise the
\* feed's MaxIntensity, or '-' if that is 'N/A', undefined or null; and every
\* banner that renders a numeric magnitude and depth shows their estimate.
C15_IntensityRecomputedWhenPossible ==
    /\ ( /\ lastOp.kind = "displayEew"
         /\ lastOp.branch \in {"create", "update"} )
       => /\ lastOp.eventId \in AlertIds
          /\ LET el == Get(activeEewAlerts, lastOp.eventId).element
             IN  /\ el \in DOMAIN container
                 /\ container[el].content.intensity = StatedIntensity(lastOp.data)
    /\ \A e \in DOMAIN container :
          LET content == container[e].content
          IN  /\ ( /\ parseFloat(content.magnitude) # NaN
                   /\ content.depth \notin {UnknownText, FjDepthText}
                   /\ parseFloat(content.depth) # NaN )
                 => content.intensity = estimateIntensity(content.magnitude, content.depth)
              /\ ( /\ parseFloat(content.magnitude) # NaN
                   /\ content.depth = FjDepthText )
                 => content.intensity = estimateIntensity(content.magnitude, 10)

\* an alert made from a snapshot whose MaxIntensity is a number other than the
\* estimate from its magnitude and depth
C15_FeedIntensityOverridden ==
    /\ lastOp.kind = "displayEew"
    /\ lastOp.branch \in {"create", "update"}
    /\ lastOp.data.MaxIntensity \in 0..12
    /\ MagnitudeForCalc(lastOp.data) # NaN
    /\ DepthForCalc(lastOp.data) # NaN
    /\ lastOp.data.MaxIntensity # estimateIntensity(MagnitudeForCalc(lastOp.data),
                                                    DepthForCalc(lastOp.data))
    /\ lastOp.eventId \in AlertIds

\* alerts whose snapshot has no numeric depth: one shows the feed's MaxIntensity
C15_FeedIntensityShown ==
    /\ lastOp.kind = "displayEew"
    /\ lastOp.branch = "create"
    /\ DepthForCalc(lastOp.data) = NaN
    /\ lastOp.data.MaxIntensity \in 0..12
    /\ container[Get(activeEewAlerts, lastOp.eventId).element].content.intensity
          = lastOp.data.MaxIntensity

\* and one, whose MaxIntensity is null, shows '-'
C15_DashShown ==
    /\ lastOp.kind = "displayEew"
    /\ lastOp.branch = "create"
    /\ DepthForCalc(lastOp.data) = NaN
    /\ lastOp.data.MaxIntensity = NullValue
    /\ container[Get(activeEewAlerts, lastOp.eventId).element].content.intensity = Dash

\* C16: a fetch that failed gives displayEew no snapshot, and that raises no
\* error (no exception, no rejected promise) and changes neither registry.
C16_FailedFetchIsNotFatal ==
    [][ ( /\ lastOp'.kind = "displayEew"
          /\ IsNull(lastOp'.data) )
        => /\ ~lastOp'.threw
           /\ UNCHANGED <<activeEewAlerts, activeWaveAnimations>> ]_vars

\* the cycle a step of the interval callback's continuation has taken
ContinuedCycle == CHOOSE c \in DOMAIN cycles :
    cycles' = [k \in 1..(Len(cycles) - 1) |-> IF k < c THEN cycles[k] ELSE cycles[k + 1]]

\* C17: a step changes a registry, a banner, a timer, a frame, an overlay or
\* the view for a polling cycle only when all fetches of that cycle have
\* settled; the fetches starting and settling change none of them; and the
\* cycle then does what it would do with only the snapshots of the fetches
\* that succeeded.
C17_ProcessedOnlyWhenAllSettled ==
    [][ /\ lastOp'.kind = "poll"
           => /\ Len(cycles') = Len(cycles) - 1
              /\ \A i \in 1..NumEewSources : cycles[ContinuedCycle][i] # Pending
              /\ Becomes(pollCycle(Cur, SelectSeq(cycles[ContinuedCycle],
                                                  LAMBDA data : ~IsNull(data))).s)
        /\ lastOp'.kind # "poll" /\ cycles' # cycles
           => UNCHANGED <<activeEewAlerts, activeWaveAnimations, expiryTimers,
                          fitViewTimers, frames, sims, container, mapObjects, view>>
      ]_vars

\* a cycle in which a fetch failed has made or kept the alert of another feed
C17_OtherFeedsProcessed ==
    /\ lastOp.kind = "poll"
    /\ lastOp.branch = "a fetch failed"
    /\ \E id \in lastOp.received : id \in AlertIds

\* C18: a displayEew call with a snapshot of no recognized kind raises nothing
\* and changes neither registry, nor any banner, timer, frame, overlay or the
\* view; and a polling cycle that has such a snapshot does what it would do
\* without it, except that the snapshot's identifier counts as received.
C18_UnknownKindIgnored ==
    [][ /\ ( /\ lastOp'.kind = "displayEew"
             /\ ~IsNull(lastOp'.data)
             /\ lastOp'.data.type \notin RecognizedTypes )
           => /\ ~lastOp'.threw
              /\ UNCHANGED <<activeEewAlerts, activeWaveAnimations, expiryTimers,
                             fitViewTimers, frames, sims, container, mapObjects, view>>
        /\ lastOp'.kind = "poll"
           => LET eewResults == cycles[ContinuedCycle]
                  Rest(processed) ==
                      EvictMissing(processed, Keys(processed.activeEewAlerts), 1,
                                   ReceivedEventIds(eewResults))
                  known == SelectSeq(eewResults,
                                     LAMBDA data : IsNull(data) \/ data.type \in RecognizedTypes)
              IN  /\ Becomes(Collect(Rest(ProcessResults(Cur, known, 1)).s))
                  /\ lastOp'.threw = Rest(ProcessResults(Cur, known, 1)).threw
      ]_vars

\* displayEew has returned from a snapshot of an unrecognized kind whose
\* identifier has an alert, which is still there
C18_UnknownKindForActiveAlert ==
    /\ lastOp.kind = "displayEew"
    /\ ~IsNull(lastOp.data)
    /\ lastOp.data.type \notin RecognizedTypes
    /\ lastOp.wasActive
    /\ lastOp.eventId \in AlertIds

\* a polling cycle with a snapshot of an unrecognized kind has run
C18_CycleWithUnknownKind ==
    /\ lastOp.kind = "poll"
    /\ \E data \in pool : data.type \notin RecognizedTypes /\ IdOf(data) \in lastOp.received
    /\ AlertIds # {}

\* C19: estimateIntensity returns 0 when the magnitude is not a number or is
\* below 3.0, whatever the depth, and its result is always an integer in 0..12.
C19_FailsClosedWithinRange ==
    estimateCall.called
    => /\ ( \/ estimateCall.magnitude \in {NaN, Undefined, NonNumeric}
            \/ estimateCall.magnitude \in (0 - 10)..29 )
          => estimateCall.estimatedI = 0
       /\ estimateCall.estimatedI \in 0..12

\* a depth that is a positive number
PositiveNumber(depth) == depth = Infinity \/ depth \in 1..700

\* C20: called with a depth that is no positive number (negative, zero, NaN,
\* missing), estimateIntensity returns what it returns for that magnitude and
\* depth 10.
C20_BadDepthIsTenKm ==
    ( /\ estimateCall.called
      /\ ~PositiveNumber(estimateCall.depth) )
    => estimateCall.estimatedI = estimateIntensity(estimateCall.magnitude, 10)

\* estimate(6.0, -5) has been computed, and is not what depth 1 or 20 would give
C20_NegativeDepthAtMagnitudeSix ==
    /\ estimateCall.called
    /\ estimateCall.magnitude = 60
    /\ estimateCall.depth = 0 - 5
    /\ estimateCall.estimatedI = 9
    /\ estimateIntensity(60, 1) # 9
    /\ estimateIntensity(60, 20) # 9

\* twice 1.5 * M + 3.0 - 3.5 * log10(depth), in millionths, for a magnitude in
\* tenths
TwiceFormula(magnitude, depth) == 300000 * magnitude + 6000000 - 7 * Log10Micro(depth)

\* i is the formula's value rounded to the nearest integer (a half rounds up)
\* and clamped to 0..12
RoundedAndClamped(i, twice) ==
    \/ i = 0 /\ twice < 1000000
    \/ i = 12 /\ twice >= 23000000
    \/ i \in 0..12 /\ 2000000 * i - 1000000 <= twice /\ twice < 2000000 * i + 1000000

\* C21 as claimed: estimate(6.8, 10) returns 7.
C21_ReturnsSeven ==
    ( /\ estimateCall.called
      /\ estimateCall.magnitude = 68
      /\ estimateCall.depth = 10 )
    => estimateCall.estimatedI = 7

\* C21, amended: for a magnitude of at least 3.0 and a positive depth the
\* estimate is round(1.5 * M + 3.0 - 3.5 * log10(depth)) clamped to 0..12, and
\* estimate(6.8, 10) is round(9.7), which is 10.
C21_ReturnsRoundedFormula ==
    /\ ( /\ estimateCall.called
         /\ estimateCall.magnitude \in 30..MaxMagnitude
         /\ estimateCall.depth \in 1..700 )
       => RoundedAndClamped(estimateCall.estimatedI,
                            TwiceFormula(estimateCall.magnitude, estimateCall.depth))
    /\ ( /\ estimateCall.called
         /\ estimateCall.magnitude = 68
         /\ estimateCall.depth = 10 )
       => estimateCall.estimatedI = 10

\* estimate(6.8, 10) has been computed
C21_SixPointEightAtTenKm ==
    /\ estimateCall.called
    /\ estimateCall.magnitude = 68
    /\ estimateCall.depth = 10
    /\ estimateCall.estimatedI = 10

\* C22: the cycles reconcile in the order they were dispatched: the one whose
\* continuation runs is the oldest that is still awaiting its fetches.
C22_CyclesReconcileInDispatchOrder ==
    [][ lastOp'.kind = "poll" => cycles' = Tail(cycles) ]_vars

\* the identifiers a polling cycle can record for the snapshots of the feeds
FeedIdentifiers == {ReceivedKey(data) : data \in {d \in pool : Accepted(d)}}

\* C23: on a page whose alerts all come from the feeds, every alert is
\* registered under the identifier the polling cycle records for its
\* snapshot, so there are never more alerts than the feeds have identifiers,
\* however many cycles have run.
C23_RegistryKeyIsRecordedKey ==
    ~testEewBtn
    => /\ AlertIds \subseteq FeedIdentifiers
       /\ Len(activeEewAlerts) <= Cardinality(FeedIdentifiers)

\* C24: the eviction pass of a polling cycle raises no error and runs to its
\* end, whatever keys displayEew has registered: after the cycle no alert is
\* left that missed it, unless its identifier is a string starting with 'test-'.
C24_EvictionPassCompletes ==
    lastOp.kind = "poll"
    => /\ ~lastOp.threw
       /\ \A i \in DOMAIN activeEewAlerts :
             \/ activeEewAlerts[i].eventId \in lastOp.received
             \/ /\ IsString(activeEewAlerts[i].eventId)
                /\ StartsWithTest(activeEewAlerts[i].eventId)

====
